---- MODULE Spec2Model ----
(***************************************************************************)
(* Model of session_12/02_notebooks/01_handling_xml_files.ipynb: an        *)
(* in-memory XML tree built, printed, parsed, queried and modified with    *)
(* xml.etree.ElementTree and xml.dom.minidom.                              *)
(*                                                                         *)
(* Objects live in a heap: a sequence of element records, an element's id  *)
(* being its position.  An element's children are ids, so that the same    *)
(* element can be referenced from several places, as Python references     *)
(* can.  Strings that are only compared (tags, attribute names and values) *)
(* are TLA+ strings; text content is a sequence of characters, so that     *)
(* whitespace handling is computed and not assumed.                        *)
(***************************************************************************)
EXTENDS Integers, Sequences, FiniteSets, TLC

VARIABLES heap, last, pc, nb

vars == <<heap, last, pc, nb>>

(***************************************************************************)
(* Bounds of the model.                                                    *)
(***************************************************************************)
\* Elements the heap holds, and child references all elements hold together
\* (an element may be referenced several times, so child lists are not
\* bounded by the number of elements).
MaxNodes == 2
MaxRefs == 3

(***************************************************************************)
(* Values.                                                                 *)
(***************************************************************************)
\* Python's None for the text and tail fields; Str(s) is the string s.
None == [some |-> FALSE, s |-> <<>>]
Str(s) == [some |-> TRUE, s |-> s]
\* Python truthiness of a text field: `if text:`.
Truthy(t) == t.some /\ t.s # <<>>

\* The tag of a comment element is the factory function itself.
CommentTag == "<function Comment>"
\* A value that is not an Element (None, a str, ...).
NotAnElement == 0

Ids(h) == 1..Len(h)

RECURSIVE RefsUpTo(_, _)
RefsUpTo(h, n) == IF n = 0 THEN 0 ELSE Len(h[n].children) + RefsUpTo(h, n - 1)
\* The number of child references in the heap.
Refs(h) == RefsUpTo(h, Len(h))
IsComment(h, n) == h[n].tag = CommentTag

Min(a, b) == IF a < b THEN a ELSE b
Max(a, b) == IF a > b THEN a ELSE b

(***************************************************************************)
(* Python list operations, as Element delegates to self._children.         *)
(***************************************************************************)
\* A variant of list.insert that refuses an index past the end and leaves
\* the list as it was.
ListInsert_DropsPastEnd(s, i, x) ==
  LET n == Len(s)
      pos == IF i < 0 THEN Max(i + n, 0) ELSE i
  IN IF pos > n THEN s
     ELSE SubSeq(s, 1, pos) \o <<x>> \o SubSeq(s, pos + 1, n)

\* list.insert(i, x): a negative index counts from the end, and an index
\* outside the list is clamped to its nearest end.
ListInsert(s, i, x) ==
  LET n == Len(s)
      pos == IF i < 0 THEN Max(i + n, 0) ELSE Min(i, n)
  IN SubSeq(s, 1, pos) \o <<x>> \o SubSeq(s, pos + 1, n)

\* The 1-based position of the first occurrence of x in s, 0 when absent.
FirstIndex(s, x) ==
  IF \E j \in 1..Len(s) : s[j] = x
  THEN CHOOSE j \in 1..Len(s) : s[j] = x /\ \A k \in 1..(j - 1) : s[k] # x
  ELSE 0

LastIndex(s, x) ==
  IF \E j \in 1..Len(s) : s[j] = x
  THEN CHOOSE j \in 1..Len(s) : s[j] = x /\ \A k \in (j + 1)..Len(s) : s[k] # x
  ELSE 0

\* A variant of list.remove that removes the last occurrence.
ListRemove_Last(s, x) ==
  LET j == LastIndex(s, x)
  IN SubSeq(s, 1, j - 1) \o SubSeq(s, j + 1, Len(s))

\* list.remove(x): removes the first occurrence.
ListRemove(s, x) ==
  LET j == FirstIndex(s, x)
  IN SubSeq(s, 1, j - 1) \o SubSeq(s, j + 1, Len(s))

(***************************************************************************)
(* ElementTree: construction.                                              *)
(***************************************************************************)
NewElement(tag, attrib) ==
  [tag |-> tag, attrib |-> attrib, text |-> None, tail |-> None,
   children |-> <<>>]

\* ElementTree.Element(tag, attrib): a new element attached nowhere.
Element(h, tag, attrib) ==
  [heap |-> Append(h, NewElement(tag, attrib)), status |-> "ok",
   value |-> Len(h) + 1]

\* ElementTree.Comment(text): an element whose tag is Comment, holding text.
Comment(h, text) ==
  [heap |-> Append(h, [NewElement(CommentTag, <<>>) EXCEPT !.text = text]),
   status |-> "ok", value |-> Len(h) + 1]

\* Element.append(subelement).
append(h, node, x) ==
  IF x \notin Ids(h)
  THEN [heap |-> h, status |-> "TypeError", value |-> 0]
  ELSE [heap |-> [h EXCEPT ![node].children = Append(@, x)],
        status |-> "ok", value |-> 0]

\* A variant of SubElement that appends the parent where the new element
\* was meant.
SubElement_AppendsParent(h, parent, tag, attrib) ==
  LET made == Element(h, tag, attrib)
  IN [heap |-> append(made.heap, parent, parent).heap, status |-> "ok",
      value |-> made.value]

\* ElementTree.SubElement(parent, tag, attrib): makeelement, then append.
SubElement(h, parent, tag, attrib) ==
  LET made == Element(h, tag, attrib)
  IN [heap |-> append(made.heap, parent, made.value).heap, status |-> "ok",
      value |-> made.value]

\* A variant of insert that puts the element last whatever the index.
insert_AtEnd(h, node, i, x) == append(h, node, x)

\* Element.insert(index, subelement).
insert(h, node, i, x) ==
  IF x \notin Ids(h)
  THEN [heap |-> h, status |-> "TypeError", value |-> 0]
  ELSE [heap |-> [h EXCEPT ![node].children = ListInsert(@, i, x)],
        status |-> "ok", value |-> 0]

\* A variant of __getitem__ without Python's negative indices.
getitem_NoNegative(h, node, i) ==
  LET s == h[node].children
  IN IF i < 0 \/ i >= Len(s)
     THEN [heap |-> h, status |-> "IndexError", value |-> 0]
     ELSE [heap |-> h, status |-> "ok", value |-> s[i + 1]]

\* Element.__getitem__(index): self._children[index].
getitem(h, node, i) ==
  LET s == h[node].children
      k == IF i < 0 THEN i + Len(s) ELSE i
  IN IF k < 0 \/ k >= Len(s)
     THEN [heap |-> h, status |-> "IndexError", value |-> 0]
     ELSE [heap |-> h, status |-> "ok", value |-> s[k + 1]]

\* Element.remove(subelement).
remove(h, node, x) ==
  IF FirstIndex(h[node].children, x) = 0
  THEN [heap |-> h, status |-> "ValueError", value |-> 0]
  ELSE [heap |-> [h EXCEPT ![node].children = ListRemove(@, x)],
        status |-> "ok", value |-> x]

\* A variant of the removal that drops the last child before it reports a
\* bad index.
removeAt_Partial(h, node, i) ==
  LET got == getitem(h, node, i)
  IN IF got.status # "ok"
     THEN [got EXCEPT !.heap = [h EXCEPT ![node].children =
                                   SubSeq(@, 1, Len(@) - 1)]]
     ELSE remove(h, node, got.value)

\* element.remove(element[index]): the index expression is evaluated first.
removeAt(h, node, i) ==
  LET got == getitem(h, node, i)
  IN IF got.status # "ok" THEN got ELSE remove(h, node, got.value)

(***************************************************************************)
(* ElementTree: traversal and ElementPath queries.                         *)
(***************************************************************************)
\* iter() without a tag, and the path "*", stand for every tag.
AnyTag == "*"

RECURSIVE iter(_, _, _), IterEach(_, _, _)
\* Element.iter(tag): the element itself when it matches, then what each
\* child's iter yields, in order.
iter(h, n, tag) ==
  (IF tag = AnyTag \/ h[n].tag = tag THEN <<n>> ELSE <<>>)
    \o IterEach(h, h[n].children, tag)
IterEach(h, s, tag) ==
  IF s = <<>> THEN <<>> ELSE iter(h, Head(s), tag) \o IterEach(h, Tail(s), tag)

\* s without the occurrences of x (`if e is not elem`).
RECURSIVE Without(_, _)
Without(s, x) ==
  IF s = <<>> THEN <<>>
  ELSE (IF Head(s) = x THEN <<>> ELSE <<Head(s)>>) \o Without(Tail(s), x)

\* The elements of s that have the tag, in order.
RECURSIVE WithTag(_, _, _)
WithTag(h, s, tag) ==
  IF s = <<>> THEN <<>>
  ELSE (IF h[Head(s)].tag = tag THEN <<Head(s)>> ELSE <<>>)
         \o WithTag(h, Tail(s), tag)

\* A variant of the descendant selector that keeps the element itself.
RECURSIVE SelectDescendant_OrSelf(_, _, _)
SelectDescendant_OrSelf(h, result, tag) ==
  IF result = <<>> THEN <<>>
  ELSE iter(h, Head(result), tag)
         \o SelectDescendant_OrSelf(h, Tail(result), tag)

\* prepare_descendant: for each element of the result so far, what its
\* iter(tag) yields other than the element itself.
RECURSIVE SelectDescendant(_, _, _)
SelectDescendant(h, result, tag) ==
  IF result = <<>> THEN <<>>
  ELSE Without(iter(h, Head(result), tag), Head(result))
         \o SelectDescendant(h, Tail(result), tag)

\* prepare_star: the children of each element of the result so far.
RECURSIVE SelectStar(_, _)
SelectStar(h, result) ==
  IF result = <<>> THEN <<>>
  ELSE h[Head(result)].children \o SelectStar(h, Tail(result))

\* prepare_child: the children with the tag.
RECURSIVE SelectChild(_, _, _)
SelectChild(h, result, tag) ==
  IF result = <<>> THEN <<>>
  ELSE WithTag(h, h[Head(result)].children, tag)
         \o SelectChild(h, Tail(result), tag)

\* iterfind's compile loop over the tokens of a path: one selector per step,
\* "//" taking the token after it as its tag, a "/" between steps skipped.
RECURSIVE Selectors(_)
Selectors(tokens) ==
  IF tokens = <<>> THEN <<>>
  ELSE LET t == Head(tokens)
       IN IF t = "/" THEN Selectors(Tail(tokens))
          ELSE IF t = "." THEN <<[op |-> "self", tag |-> ""]>>
                                 \o Selectors(Tail(tokens))
          ELSE IF t = "//" THEN <<[op |-> "descendant", tag |-> tokens[2]]>>
                                  \o Selectors(SubSeq(tokens, 3, Len(tokens)))
          ELSE IF t = "*" THEN <<[op |-> "star", tag |-> ""]>>
                                 \o Selectors(Tail(tokens))
          ELSE <<[op |-> "child", tag |-> t]>> \o Selectors(Tail(tokens))

Select(h, sel, result) ==
  CASE sel.op = "self" -> result
    [] sel.op = "descendant" -> SelectDescendant(h, result, sel.tag)
    [] sel.op = "star" -> SelectStar(h, result)
    [] sel.op = "child" -> SelectChild(h, result, sel.tag)

RECURSIVE RunSelectors(_, _, _)
RunSelectors(h, sels, result) ==
  IF sels = <<>> THEN result
  ELSE RunSelectors(h, Tail(sels), Select(h, Head(sels), result))

\* Element.findall(path), the path given as its tokens.  A path that
\* starts with "/" is refused.
findall(h, node, path) ==
  IF Head(path) \in {"/", "//"}
  THEN [heap |-> h, status |-> "SyntaxError", value |-> 0, result |-> <<>>]
  ELSE [heap |-> h, status |-> "ok", value |-> 0,
        result |-> RunSelectors(h, Selectors(path), <<node>>)]

\* Element.find(path): the first match, None (0) when there is none.
find(h, node, path) ==
  LET all == findall(h, node, path)
  IN [all EXCEPT !.value = IF all.result = <<>> THEN 0 ELSE all.result[1]]

(***************************************************************************)
(* Text, attributes, markup.  A document in textual form is a sequence of  *)
(* markup tokens; character data between tags is a text token holding its  *)
(* characters.  Escaping of markup characters is not modelled: text is     *)
(* drawn from characters that need none.                                   *)
(***************************************************************************)
Whitespace == {" ", "\t", "\n", "\r"}

RECURSIVE LStrip(_)
LStrip(s) ==
  IF s # <<>> /\ Head(s) \in Whitespace THEN LStrip(Tail(s)) ELSE s
RECURSIVE RStrip(_)
RStrip(s) ==
  IF s # <<>> /\ s[Len(s)] \in Whitespace
  THEN RStrip(SubSeq(s, 1, Len(s) - 1)) ELSE s
\* A variant of strip that strips the front only.
Strip_LeftOnly(s) == LStrip(s)
\* str.strip()
Strip(s) == RStrip(LStrip(s))

\* node.text = text
SetText(h, node, text) ==
  [heap |-> [h EXCEPT ![node].text = text], status |-> "ok", value |-> 0]

HasKey(attrib, key) == \E i \in 1..Len(attrib) : attrib[i][1] = key

\* A variant of the attribute assignment that leaves a comment untouched.
SetAttribute_SkipsComment(h, node, key, value) ==
  [heap |-> IF h[node].tag = CommentTag THEN h
            ELSE [h EXCEPT ![node].attrib =
                    IF HasKey(@, key)
                    THEN [i \in 1..Len(@) |->
                            IF @[i][1] = key THEN <<key, value>> ELSE @[i]]
                    ELSE Append(@, <<key, value>>)],
   status |-> "ok", value |-> 0]

\* node.attrib[key] = value: a dict keeps the place of a key it has and puts
\* a new key last.
SetAttribute(h, node, key, value) ==
  [heap |-> [h EXCEPT ![node].attrib =
               IF HasKey(@, key)
               THEN [i \in 1..Len(@) |->
                       IF @[i][1] = key THEN <<key, value>> ELSE @[i]]
               ELSE Append(@, <<key, value>>)],
   status |-> "ok", value |-> 0]

Tok(t, tag, attrs, data) ==
  [t |-> t, tag |-> tag, attrs |-> attrs, data |-> data]
StartTok(tag, attrs) == Tok("start", tag, attrs, <<>>)
EmptyTok(tag, attrs) == Tok("empty", tag, attrs, <<>>)
EndTok(tag) == Tok("end", tag, <<>>, <<>>)
TextTok(data) == Tok("text", "", <<>>, data)
CommentTok(data) == Tok("comment", "", <<>>, data)
DeclTok == Tok("decl", "", <<>>, <<>>)
\* write(data): nothing is written for the empty string.
Written(data) == IF data = <<>> THEN <<>> ELSE <<TextTok(data)>>

\* "%s" % text
Formatted(text) == IF text.some THEN text.s ELSE <<"None">>

(***************************************************************************)
(* ElementTree.tostring(element, short_empty_elements = False).            *)
(***************************************************************************)
RECURSIVE tostring(_, _), SerializeEach(_, _)
tostring(h, n) ==
  (IF h[n].tag = CommentTag
   THEN <<CommentTok(Formatted(h[n].text))>>
   ELSE <<StartTok(h[n].tag, h[n].attrib)>>
          \o (IF Truthy(h[n].text) THEN <<TextTok(h[n].text.s)>> ELSE <<>>)
          \o SerializeEach(h, h[n].children)
          \o <<EndTok(h[n].tag)>>)
    \o (IF Truthy(h[n].tail) THEN <<TextTok(h[n].tail.s)>> ELSE <<>>)
SerializeEach(h, s) ==
  IF s = <<>> THEN <<>> ELSE tostring(h, Head(s)) \o SerializeEach(h, Tail(s))

(***************************************************************************)
(* minidom.parseString and toprettyxml.  The DOM is a heap of its own;     *)
(* node 1 is the Document.                                                 *)
(***************************************************************************)
DomNode(type, tag, attrs, data) ==
  [type |-> type, tag |-> tag, attrs |-> attrs, data |-> data,
   childNodes |-> <<>>]

DomAppend(dom, cur, node) ==
  Append([dom EXCEPT ![cur].childNodes = Append(@, Len(dom) + 1)], node)

RECURSIVE DomFeed(_, _, _)
DomFeed(toks, dom, stack) ==
  IF toks = <<>> THEN dom
  ELSE LET k == Head(toks)
           rest == Tail(toks)
           cur == stack[Len(stack)]
           kids == dom[cur].childNodes
       IN CASE k.t = "start" ->
                 DomFeed(rest,
                         DomAppend(dom, cur,
                                   DomNode("element", k.tag, k.attrs, <<>>)),
                         Append(stack, Len(dom) + 1))
            [] k.t = "empty" ->
                 DomFeed(rest,
                         DomAppend(dom, cur,
                                   DomNode("element", k.tag, k.attrs, <<>>)),
                         stack)
            [] k.t = "end" ->
                 DomFeed(rest, dom, SubSeq(stack, 1, Len(stack) - 1))
            [] k.t = "text" ->
                 \* character_data_handler: data joins a text node before it.
                 IF cur = 1 THEN DomFeed(rest, dom, stack)
                 ELSE IF kids # <<>> /\ dom[kids[Len(kids)]].type = "text"
                 THEN DomFeed(rest,
                              [dom EXCEPT ![kids[Len(kids)]].data =
                                 @ \o k.data],
                              stack)
                 ELSE DomFeed(rest,
                              DomAppend(dom, cur,
                                        DomNode("text", "", <<>>, k.data)),
                              stack)
            [] k.t = "comment" ->
                 DomFeed(rest,
                         DomAppend(dom, cur,
                                   DomNode("comment", "", <<>>, k.data)),
                         stack)
            [] OTHER -> DomFeed(rest, dom, stack)

parseString(toks) ==
  DomFeed(toks, <<DomNode("document", "", <<>>, <<>>)>>, <<1>>)

Newl == <<"\n">>
AddIndent == <<"\t">>

RECURSIVE writexml(_, _, _), WriteEach(_, _, _)
writexml(dom, n, indent) ==
  LET node == dom[n]
      kids == node.childNodes
  IN CASE node.type = "element" ->
            Written(indent)
              \o (IF kids = <<>>
                  THEN <<EmptyTok(node.tag, node.attrs)>>
                  ELSE <<StartTok(node.tag, node.attrs)>>
                         \o (IF Len(kids) = 1 /\ dom[kids[1]].type = "text"
                             THEN Written(dom[kids[1]].data)
                             ELSE Written(Newl)
                                    \o WriteEach(dom, kids,
                                                 indent \o AddIndent)
                                    \o Written(indent))
                         \o <<EndTok(node.tag)>>)
              \o Written(Newl)
       [] node.type = "text" -> Written(indent \o node.data \o Newl)
       [] node.type = "comment" ->
            Written(indent) \o <<CommentTok(node.data)>> \o Written(Newl)
       [] node.type = "document" ->
            <<DeclTok>> \o Written(Newl) \o WriteEach(dom, kids, indent)
WriteEach(dom, s, indent) ==
  IF s = <<>> THEN <<>>
  ELSE writexml(dom, Head(s), indent) \o WriteEach(dom, Tail(s), indent)

toprettyxml(dom) == writexml(dom, 1, <<>>)

\* def format_xml_data(element)
format_xml_data(h, n) == toprettyxml(parseString(tostring(h, n)))

(***************************************************************************)
(* ElementTree.canonicalize(xml_string, strip_text = True): the parser     *)
(* feeds a C14NWriterTarget, which writes the canonical form.              *)
(***************************************************************************)
\* Attribute names in the order sorted() puts them.
AttributeOrder ==
  <<"creation-date", "restricted-usage", "standard-compliance", "taxonomy",
    "version">>

RECURSIVE ItemsNamed(_, _)
ItemsNamed(attrs, name) ==
  IF attrs = <<>> THEN <<>>
  ELSE (IF Head(attrs)[1] = name THEN <<Head(attrs)>> ELSE <<>>)
         \o ItemsNamed(Tail(attrs), name)

RECURSIVE SortedBy(_, _)
SortedBy(attrs, names) ==
  IF names = <<>> THEN <<>>
  ELSE ItemsNamed(attrs, Head(names)) \o SortedBy(attrs, Tail(names))

\* sorted(attrs.items())
SortedItems(attrs) == SortedBy(attrs, AttributeOrder)

\* C14NWriterTarget._flush: the data gathered so far is joined, stripped and
\* written when something is left of it and the root has been opened.
C14NFlush(st) ==
  LET data == Strip(st.data)
  IN [st EXCEPT !.data = <<>>,
                !.out = IF data # <<>> /\ st.rootSeen
                        THEN Append(@, TextTok(data)) ELSE @]

RECURSIVE C14NFeed(_, _)
C14NFeed(toks, st) ==
  IF toks = <<>> THEN st.out
  ELSE LET k == Head(toks)
           rest == Tail(toks)
           flushed == C14NFlush(st)
           opened == [flushed EXCEPT
                        !.out = Append(@, StartTok(k.tag,
                                                   SortedItems(k.attrs))),
                        !.rootSeen = TRUE]
       IN CASE k.t = "start" -> C14NFeed(rest, opened)
            [] k.t = "empty" ->
                 C14NFeed(rest, [opened EXCEPT !.out = Append(@, EndTok(k.tag))])
            [] k.t = "end" ->
                 C14NFeed(rest,
                          [flushed EXCEPT !.out = Append(@, EndTok(k.tag))])
            [] k.t = "text" ->
                 C14NFeed(rest, [st EXCEPT !.data = @ \o k.data])
            \* comment(): with_comments is False, nothing is written or
            \* flushed; the declaration is not passed on.
            [] OTHER -> C14NFeed(rest, st)

canonicalize(toks) ==
  C14NFeed(toks, [out |-> <<>>, data |-> <<>>, rootSeen |-> FALSE])

(***************************************************************************)
(* ElementTree.fromstring(text): XMLParser feeding a TreeBuilder.  The new *)
(* elements are allocated in h.                                            *)
(***************************************************************************)
\* TreeBuilder._flush: the data gathered is the text of the element just
\* opened or the tail of the element just closed.
TreeFlush(st) ==
  IF st.data = <<>> THEN st
  ELSE [st EXCEPT
          !.data = <<>>,
          !.heap = IF st.last = 0 THEN @
                   ELSE IF st.tail
                   THEN [@ EXCEPT ![st.last].tail = Str(st.data)]
                   ELSE [@ EXCEPT ![st.last].text = Str(st.data)]]

TreeStart(st, tag, attrs) ==
  LET f == TreeFlush(st)
      new == Len(f.heap) + 1
      made == Append(f.heap, NewElement(tag, attrs))
  IN [f EXCEPT
        !.heap = IF f.stack # <<>>
                 THEN [made EXCEPT ![f.stack[Len(f.stack)]].children =
                         Append(@, new)]
                 ELSE made,
        !.root = IF f.stack = <<>> /\ @ = 0 THEN new ELSE @,
        !.stack = Append(@, new),
        !.last = new,
        !.tail = FALSE]

TreeEnd(st) ==
  LET f == TreeFlush(st)
  IN [f EXCEPT !.last = f.stack[Len(f.stack)],
               !.stack = SubSeq(@, 1, Len(@) - 1),
               !.tail = TRUE]

RECURSIVE TreeFeed(_, _)
TreeFeed(toks, st) ==
  IF toks = <<>> THEN st
  ELSE LET k == Head(toks)
           rest == Tail(toks)
       IN CASE k.t = "start" -> TreeFeed(rest, TreeStart(st, k.tag, k.attrs))
            [] k.t = "empty" ->
                 TreeFeed(rest, TreeEnd(TreeStart(st, k.tag, k.attrs)))
            [] k.t = "end" -> TreeFeed(rest, TreeEnd(st))
            [] k.t = "text" -> TreeFeed(rest, [st EXCEPT !.data = @ \o k.data])
            \* comments are not inserted (insert_comments is False)
            [] OTHER -> TreeFeed(rest, st)

fromstring(h, toks) ==
  LET st == TreeFeed(toks, [heap |-> h, stack |-> <<>>, last |-> 0,
                            tail |-> FALSE, data |-> <<>>, root |-> 0])
  IN [heap |-> st.heap, status |-> "ok", value |-> st.root]

(***************************************************************************)
(* The record of the last call: what was called, on what, and what came    *)
(* back.  before is the heap as it was when the call was made.             *)
(***************************************************************************)
NoCall ==
  [op |-> "none", node |-> 0, index |-> 0, child |-> 0, status |-> "ok",
   value |-> 0, result |-> <<>>, before |-> <<>>, undoes |-> FALSE,
   orig |-> <<>>, path |-> <<>>, doc |-> <<>>]

Call(op, node, index, child, r) ==
  [NoCall EXCEPT !.op = op, !.node = node, !.index = index, !.child = child,
                 !.status = r.status, !.value = r.value, !.before = heap]

ElementTags == {"usage-purpose"}
Indices == (0 - MaxRefs)..MaxRefs

(***************************************************************************)
(* The tree API, one action per call.  A call is made at pc = "api" and     *)
(* leaves its record in last at pc = "called"; Return drops the record and *)
(* the caller goes on to the next call.                                    *)
(***************************************************************************)
CreateElement ==
  /\ pc = "api"
  /\ Len(heap) < MaxNodes
  /\ \E tag \in ElementTags :
       LET r == Element(heap, tag, <<>>)
       IN /\ heap' = r.heap
          /\ last' = Call("Element", 0, 0, 0, r)
  /\ pc' = "called"
  /\ UNCHANGED nb

CreateComment ==
  /\ pc = "api"
  /\ Len(heap) < MaxNodes
  /\ LET r == Comment(heap, Str(<<"c">>))
     IN /\ heap' = r.heap
        /\ last' = Call("Comment", 0, 0, 0, r)
  /\ pc' = "called"
  /\ UNCHANGED nb

CreateSubElement ==
  /\ pc = "api"
  /\ Len(heap) < MaxNodes
  /\ \E parent \in Ids(heap), tag \in ElementTags :
       /\ Refs(heap) < MaxRefs
       /\ LET r == SubElement(heap, parent, tag, <<>>)
          IN /\ heap' = r.heap
             /\ last' = Call("SubElement", parent, 0, 0, r)
  /\ pc' = "called"
  /\ UNCHANGED nb

AppendChild ==
  /\ pc = "api"
  /\ \E parent \in Ids(heap), child \in Ids(heap) \cup {NotAnElement} :
       /\ Refs(heap) < MaxRefs
       /\ LET r == append(heap, parent, child)
          IN /\ heap' = r.heap
             /\ last' = Call("append", parent, 0, child, r)
  /\ pc' = "called"
  /\ UNCHANGED nb

InsertChild ==
  /\ pc = "api"
  /\ \E parent \in Ids(heap), index \in Indices,
        child \in Ids(heap) \cup {NotAnElement} :
       /\ Refs(heap) < MaxRefs
       /\ LET r == insert(heap, parent, index, child)
          IN /\ heap' = r.heap
             /\ last' = Call("insert", parent, index, child, r)
  /\ pc' = "called"
  /\ UNCHANGED nb

\* The caller holds the child a removal just returned and inserts it again
\* into the same parent, at any index.  When the index is the one it was
\* removed from, the record keeps the children as they were before the
\* removal (orig).
ReinsertRemoved ==
  /\ pc = "called"
  /\ last.op = "removeAt"
  /\ last.status = "ok"
  /\ \E index \in Indices :
       LET r == insert(heap, last.node, index, last.value)
           undoes == index = last.index
       IN /\ heap' = r.heap
          /\ last' = [Call("insert", last.node, index, last.value, r) EXCEPT
                        !.undoes = undoes,
                        !.orig = IF undoes
                                 THEN last.before[last.node].children
                                 ELSE <<>>]
  /\ UNCHANGED <<pc, nb>>

RemoveChildAt ==
  /\ pc = "api"
  /\ \E parent \in Ids(heap), index \in Indices :
       LET r == removeAt(heap, parent, index)
       IN /\ heap' = r.heap
          /\ last' = Call("removeAt", parent, index, 0, r)
  /\ pc' = "called"
  /\ UNCHANGED nb

ChildAt ==
  /\ pc = "api"
  /\ \E node \in Ids(heap), index \in Indices :
       LET r == getitem(heap, node, index)
       IN /\ heap' = r.heap
          /\ last' = Call("getitem", node, index, 0, r)
  /\ pc' = "called"
  /\ UNCHANGED nb

Return ==
  /\ pc = "called"
  /\ pc' = "api"
  /\ last' = NoCall
  /\ UNCHANGED <<heap, nb>>

Init ==
  /\ heap = <<>>
  /\ last = NoCall
  /\ pc = "api"
  /\ nb = <<>>

Next ==
  \/ CreateElement
  \/ CreateComment
  \/ CreateSubElement
  \/ AppendChild
  \/ InsertChild
  \/ ReinsertRemoved
  \/ RemoveChildAt
  \/ ChildAt
  \/ Return

Spec == Init /\ [][Next]_vars

(***************************************************************************)
(* Queries on a tree built the way the notebook builds one: a root, then   *)
(* sub-elements and comments appended below it.                            *)
(***************************************************************************)
MaxTreeNodes == 5

QueryTags == {"usage-information", "usage-purpose"}
DescendantPath(tag) == <<".", "//", tag>>
DescendantChildrenPath(tag) == <<".", "//", tag, "/", "*">>
AbsolutePath(tag) == <<"//", tag>>
QueryPaths ==
  {DescendantPath(t) : t \in QueryTags}
    \cup {DescendantChildrenPath(t) : t \in QueryTags}
    \cup {AbsolutePath(t) : t \in QueryTags}

CreateRoot ==
  /\ pc = "api"
  /\ heap = <<>>
  /\ \E tag \in QueryTags :
       LET r == Element(heap, tag, <<>>)
       IN /\ heap' = r.heap
          /\ last' = Call("Element", 0, 0, 0, r)
  /\ pc' = "called"
  /\ UNCHANGED nb

AddSubElement ==
  /\ pc = "api"
  /\ Len(heap) < MaxTreeNodes
  /\ \E parent \in Ids(heap), tag \in QueryTags :
       LET r == SubElement(heap, parent, tag, <<>>)
       IN /\ heap' = r.heap
          /\ last' = Call("SubElement", parent, 0, 0, r)
  /\ pc' = "called"
  /\ UNCHANGED nb

\* comment_node = ElementTree.Comment(...); parent.append(comment_node)
AppendComment ==
  /\ pc = "api"
  /\ Len(heap) < MaxTreeNodes
  /\ \E parent \in Ids(heap) :
       LET made == Comment(heap, Str(<<"c">>))
           r == append(made.heap, parent, made.value)
       IN /\ heap' = r.heap
          /\ last' = Call("append", parent, 0, made.value, r)
  /\ pc' = "called"
  /\ UNCHANGED nb

\* for child_node in root.iter()
Walk ==
  /\ pc = "api"
  /\ heap # <<>>
  /\ last' = [Call("iter", 1, 0, 0, [status |-> "ok", value |-> 0]) EXCEPT
                !.result = iter(heap, 1, AnyTag)]
  /\ pc' = "called"
  /\ UNCHANGED <<heap, nb>>

\* root.findall(path)
FindAll ==
  /\ pc = "api"
  /\ heap # <<>>
  /\ \E path \in QueryPaths :
       LET r == findall(heap, 1, path)
       IN last' = [Call("findall", 1, 0, 0, r) EXCEPT
                     !.result = r.result, !.path = path]
  /\ pc' = "called"
  /\ UNCHANGED <<heap, nb>>

NextQuery ==
  \/ CreateRoot
  \/ AddSubElement
  \/ AppendComment
  \/ Walk
  \/ FindAll
  \/ Return

SpecQuery == Init /\ [][NextQuery]_vars

(***************************************************************************)
(* Documents: a tree is built, given text and attributes, written out by   *)
(* format_xml_data and read back as the notebook reads its file.           *)
(***************************************************************************)
MaxDocNodes == 3

DocTags == {"usage-purpose"}
RootAttribs ==
  {<<>>, <<<<"version", <<"1">>>>, <<"creation-date", <<"0">>>>>>}
Texts == {<<>>, <<"x">>, <<" ", "x", "\n">>}

\* root_node = ElementTree.Element(tag, attrib = {...})
CreateDocRoot ==
  /\ pc = "api"
  /\ heap = <<>>
  /\ \E tag \in DocTags, attrib \in RootAttribs :
       LET r == Element(heap, tag, attrib)
       IN /\ heap' = r.heap
          /\ last' = Call("Element", 0, 0, 0, r)
  /\ pc' = "called"
  /\ UNCHANGED nb

AddDocSubElement ==
  /\ pc = "api"
  /\ Len(heap) < MaxDocNodes
  /\ \E parent \in Ids(heap), tag \in DocTags :
       LET r == SubElement(heap, parent, tag, <<>>)
       IN /\ heap' = r.heap
          /\ last' = Call("SubElement", parent, 0, 0, r)
  /\ pc' = "called"
  /\ UNCHANGED nb

AppendDocComment ==
  /\ pc = "api"
  /\ Len(heap) < MaxDocNodes
  /\ \E parent \in Ids(heap) :
       LET made == Comment(heap, Str(<<"c">>))
           r == append(made.heap, parent, made.value)
       IN /\ heap' = r.heap
          /\ last' = Call("append", parent, 0, made.value, r)
  /\ pc' = "called"
  /\ UNCHANGED nb

\* node.text = "..."
AssignText ==
  /\ pc = "api"
  /\ \E node \in Ids(heap), text \in Texts :
       /\ ~IsComment(heap, node)
       /\ heap[node].text = None
       /\ LET r == SetText(heap, node, Str(text))
          IN /\ heap' = r.heap
             /\ last' = Call("text", node, 0, 0, r)
  /\ pc' = "called"
  /\ UNCHANGED nb

\* node.attrib["taxonomy"] = "simplified"
AssignAttribute ==
  /\ pc = "api"
  /\ \E node \in Ids(heap) :
       /\ ~HasKey(heap[node].attrib, "taxonomy")
       /\ LET r == SetAttribute(heap, node, "taxonomy", <<"s">>)
          IN /\ heap' = r.heap
             /\ last' = Call("attrib", node, 0, 0, r)
  /\ pc' = "called"
  /\ UNCHANGED nb

\* The file is written with format_xml_data(root_node) and read back with
\* ElementTree.fromstring(ElementTree.canonicalize(xml_string,
\* strip_text = True)).
RoundTrip ==
  /\ pc = "api"
  /\ heap # <<>>
  /\ LET xml_string == format_xml_data(heap, 1)
         r == fromstring(<<>>, canonicalize(xml_string))
     IN last' = [Call("roundtrip", 1, 0, 0, r) EXCEPT !.doc = r.heap]
  /\ pc' = "called"
  /\ UNCHANGED <<heap, nb>>

NextDoc ==
  \/ CreateDocRoot
  \/ AddDocSubElement
  \/ AppendDocComment
  \/ AssignText
  \/ AssignAttribute
  \/ RoundTrip
  \/ Return

SpecDoc == Init /\ [][NextDoc]_vars

(***************************************************************************)
(* The notebook, cell by cell.  Text is written as a sequence of words and *)
(* whitespace characters.  nb holds the notebook's variables; nb.parsed is *)
(* the heap as it was when the file had been read back.                    *)
(***************************************************************************)
UsagePurposeCount == 3
UsagePurposes ==
  {<<"manufacturing">>,
   <<"high", " ", "precision", " ", "operations">>,
   <<"micro", " ", "mechanics">>}

NotebookStart ==
  [root_node |-> 0, usage_information_element |-> 0, purposes |-> 0,
   parsed_root_element |-> 0, parsed |-> <<>>]

InitNotebook ==
  /\ heap = <<>>
  /\ last = NoCall
  /\ pc = "root_node"
  /\ nb = NotebookStart

NbRootNode ==
  /\ pc = "root_node"
  /\ LET r == Element(heap, "robot-specification",
                      <<<<"version", <<"1.0">>>>,
                        <<"creation-date", <<"01/12/2023">>>>>>)
     IN /\ heap' = r.heap
        /\ nb' = [nb EXCEPT !.root_node = r.value]
  /\ pc' = "serial_number_node"
  /\ UNCHANGED last

NbSerialNumber ==
  /\ pc = "serial_number_node"
  /\ LET r == SubElement(heap, nb.root_node, "serial-number", <<>>)
     IN heap' = SetText(r.heap, r.value,
                        Str(<<"09372937-3bf1-454b-857b-ecca1dbe87a0">>)).heap
  /\ pc' = "usage_information_element"
  /\ UNCHANGED <<last, nb>>

NbUsageInformation ==
  /\ pc = "usage_information_element"
  /\ LET r == SubElement(heap, nb.root_node, "usage-information",
                         <<<<"restricted-usage", <<"false">>>>,
                           <<"standard-compliance", <<"high">>>>>>)
     IN /\ heap' = r.heap
        /\ nb' = [nb EXCEPT !.usage_information_element = r.value]
  /\ pc' = "usage_purposes"
  /\ UNCHANGED last

\* One turn of the loop over usage_purposes.
NbUsagePurpose ==
  /\ pc = "usage_purposes"
  /\ nb.purposes < UsagePurposeCount
  /\ \E usage_purpose \in UsagePurposes :
       LET r == SubElement(heap, nb.usage_information_element,
                           "usage-purpose", <<>>)
       IN heap' = SetText(r.heap, r.value, Str(usage_purpose)).heap
  /\ nb' = [nb EXCEPT !.purposes = @ + 1]
  /\ UNCHANGED <<last, pc>>

NbComment ==
  /\ pc = "usage_purposes"
  /\ nb.purposes = UsagePurposeCount
  /\ LET made == Comment(heap, Str(<<"More", " ", "later">>))
     IN heap' = append(made.heap, nb.root_node, made.value).heap
  /\ pc' = "file"
  /\ UNCHANGED <<last, nb>>

\* The file is written and read back; the parsed tree is a tree of its own.
NbWriteAndParse ==
  /\ pc = "file"
  /\ LET xml_string == format_xml_data(heap, nb.root_node)
         r == fromstring(heap, canonicalize(xml_string))
     IN /\ heap' = r.heap
        /\ nb' = [nb EXCEPT !.parsed_root_element = r.value,
                            !.parsed = r.heap]
  /\ pc' = "find"
  /\ UNCHANGED last

NbFind ==
  /\ pc = "find"
  /\ nb' = [nb EXCEPT !.usage_information_element =
              find(heap, nb.parsed_root_element,
                   DescendantPath("usage-information")).value]
  /\ pc' = "remove_2"
  /\ UNCHANGED <<heap, last>>

NbRemoveThird ==
  /\ pc = "remove_2"
  /\ LET r == removeAt(heap, nb.usage_information_element, 2)
     IN /\ r.status = "ok"
        /\ heap' = r.heap
  /\ pc' = "remove_1"
  /\ UNCHANGED <<last, nb>>

NbRemoveSecond ==
  /\ pc = "remove_1"
  /\ LET r == removeAt(heap, nb.usage_information_element, 1)
     IN /\ r.status = "ok"
        /\ heap' = r.heap
  /\ pc' = "health"
  /\ UNCHANGED <<last, nb>>

NbInsertHealth ==
  /\ pc = "health"
  /\ LET made == Element(heap, "usage-purpose", <<>>)
         named == SetText(made.heap, made.value, Str(<<"health">>))
     IN heap' = insert(named.heap, nb.usage_information_element, 0,
                       made.value).heap
  /\ pc' = "robotics"
  /\ UNCHANGED <<last, nb>>

NbAddRobotics ==
  /\ pc = "robotics"
  /\ LET r == SubElement(heap, nb.usage_information_element,
                         "usage-purpose", <<>>)
     IN heap' = SetText(r.heap, r.value, Str(<<"robotics">>)).heap
  /\ pc' = "taxonomy"
  /\ UNCHANGED <<last, nb>>

NbSetTaxonomy ==
  /\ pc = "taxonomy"
  /\ heap' = SetAttribute(heap, nb.usage_information_element, "taxonomy",
                          <<"simplified">>).heap
  /\ pc' = "done"
  /\ UNCHANGED <<last, nb>>

NextNotebook ==
  \/ NbRootNode
  \/ NbSerialNumber
  \/ NbUsageInformation
  \/ NbUsagePurpose
  \/ NbComment
  \/ NbWriteAndParse
  \/ NbFind
  \/ NbRemoveThird
  \/ NbRemoveSecond
  \/ NbInsertHealth
  \/ NbAddRobotics
  \/ NbSetTaxonomy

SpecNotebook == InitNotebook /\ [][NextNotebook]_vars

(***************************************************************************)
(* Shape of the heap.                                                      *)
(***************************************************************************)
Kids(h, n) == {h[n].children[j] : j \in 1..Len(h[n].children)}

RECURSIVE Reach(_, _, _)
Reach(h, S, k) ==
  IF k = 0 THEN S ELSE Reach(h, S \cup UNION {Kids(h, n) : n \in S}, k - 1)

\* The elements below x: its children, their children, and so on.
Desc(h, x) == Reach(h, Kids(h, x), Len(h))
AncestorsOrSelf(h, x) == {a \in Ids(h) : a = x \/ x \in Desc(h, a)}

\* How many child references to x the heap holds.
Occurrences(h, x) ==
  Cardinality({p \in Ids(h) \X (1..MaxRefs + 1) :
                 p[2] <= Len(h[p[1]].children) /\ h[p[1]].children[p[2]] = x})

\* Every element is the child of at most one parent, once, and none is below
\* itself.
IsForest(h) ==
  /\ \A x \in Ids(h) : Occurrences(h, x) <= 1
  /\ \A x \in Ids(h) : x \notin Desc(h, x)

(***************************************************************************)
(* Claims about the tree API, under Spec.                                  *)
(***************************************************************************)
ChildrenBefore == last.before[last.node].children

\* C2 (as stated): for every element N and index i with 0 <= i < len(N),
\* removing the child at i and inserting the removed node at i again leaves
\* N's children as they were before the removal.
C2_RemoveInsertRestores ==
  (last.op = "insert" /\ last.undoes /\ 0 <= last.index
     /\ last.index < Len(last.orig))
    => heap[last.node].children = last.orig

\* C2 (amended): the same, provided the child at index i does not also occur
\* at an earlier index of N's children (remove takes out the first
\* occurrence of the node, which is then the one at i).
C2_RemoveInsertRestoresFirstOccurrence ==
  (last.op = "insert" /\ last.undoes /\ 0 <= last.index
     /\ last.index < Len(last.orig)
     /\ FirstIndex(last.orig, last.child) = last.index + 1)
    => heap[last.node].children = last.orig

C2_Witness ==
  /\ last.op = "insert" /\ last.undoes /\ last.status = "ok"
  /\ Len(last.orig) >= 2
  /\ last.index = 1
  /\ FirstIndex(last.orig, last.child) = 2

\* C4 (as stated): insertChild(P, n, c) with n the number of children of P
\* gives the children append(P, c) gives, and insertChild(P, i, c) with
\* i > n fails with an index error and inserts nothing.
C4_InsertPastEndFails ==
  (last.op = "insert" /\ last.child \in Ids(last.before))
    => /\ last.index = Len(ChildrenBefore)
            => heap = append(last.before, last.node, last.child).heap
       /\ last.index > Len(ChildrenBefore)
            => last.status = "IndexError" /\ heap = last.before

\* C4 (amended): insertChild(P, i, c) gives the children append(P, c) gives
\* for i = n and for every i > n alike: the index is clamped to n, c becomes
\* the last child and the call does not fail.
C4_InsertAtOrPastEndAppends ==
  (last.op = "insert" /\ last.child \in Ids(last.before)
     /\ last.index >= Len(ChildrenBefore))
    => /\ last.status = "ok"
       /\ heap = append(last.before, last.node, last.child).heap

C4_Witness ==
  /\ last.op = "insert" /\ last.status = "ok"
  /\ Len(ChildrenBefore) >= 1
  /\ last.index > Len(ChildrenBefore)
  /\ heap[last.node].children = Append(ChildrenBefore, last.child)

\* C6: a failed insertChild or removeChildAt leaves the children of every
\* element as they were before the call.
C6_FailedCallChangesNothing ==
  (last.op \in {"insert", "removeAt"} /\ last.status # "ok")
    => \A n \in Ids(last.before) :
         /\ n \in Ids(heap)
         /\ heap[n].children = last.before[n].children

C6_Witness ==
  /\ last.op = "removeAt" /\ last.status = "IndexError"
  /\ Len(ChildrenBefore) >= 1
  /\ heap = last.before

\* C7 (as stated): after any sequence of calls the structure is a tree: every
\* element is the child of at most one parent, once, and no element is its
\* own ancestor (insertChild refusing what would break it).
C7_AlwaysTree == IsForest(heap)

\* An append or insert that attaches an element that is already attached
\* somewhere, or is the parent itself or one of its ancestors.
AttachesAttachedOrAncestor ==
  /\ last.op \in {"append", "insert"}
  /\ last.status = "ok"
  /\ \/ Occurrences(last.before, last.child) > 0
     \/ last.child \in AncestorsOrSelf(last.before, last.node)

\* C7 (amended): a call made on a tree leaves a tree unless it is an append
\* or insertChild of an element that is already attached or is the parent
\* or an ancestor of it; such a call is not refused: insertChild of the
\* parent or of one of its ancestors succeeds and puts that element below
\* itself.
C7_TreeKeptByFreshAttach ==
  /\ (last.op # "none" /\ IsForest(last.before)
        /\ ~AttachesAttachedOrAncestor) => IsForest(heap)
  /\ (last.op = "insert" /\ last.child \in Ids(last.before)
        /\ last.child \in AncestorsOrSelf(last.before, last.node))
       => last.status = "ok" /\ last.child \in Desc(heap, last.child)

C7_Witness ==
  /\ last.op = "insert" /\ last.status = "ok"
  /\ IsForest(last.before)
  /\ last.child # last.node
  /\ last.child \in AncestorsOrSelf(last.before, last.node)
  /\ ~IsForest(heap)

\* C10 (as stated): childAt(N, i) returns the i-th child when
\* 0 <= i <= len-1 and fails with an index error for every other i, every
\* negative i included.
C10_OutsideRangeFails ==
  last.op = "getitem"
    => IF 0 <= last.index /\ last.index <= Len(ChildrenBefore) - 1
       THEN last.status = "ok" /\ last.value = ChildrenBefore[last.index + 1]
       ELSE last.status = "IndexError"

\* C10 (amended): childAt(N, i) returns the i-th child when
\* 0 <= i <= len-1, the child at len+i when -len <= i <= -1 (a negative
\* index counts from the end), and fails with an index error for every
\* other i.
C10_NegativeCountsFromEnd ==
  last.op = "getitem"
    => IF 0 <= last.index /\ last.index <= Len(ChildrenBefore) - 1
       THEN last.status = "ok" /\ last.value = ChildrenBefore[last.index + 1]
       ELSE IF 0 - Len(ChildrenBefore) <= last.index /\ last.index <= 0 - 1
       THEN /\ last.status = "ok"
            /\ last.value =
                 ChildrenBefore[Len(ChildrenBefore) + last.index + 1]
       ELSE last.status = "IndexError"

C10_Witness ==
  /\ last.op = "getitem" /\ last.status = "ok"
  /\ last.index < 0 - 1
  /\ Len(ChildrenBefore) >= 2
  /\ last.value = ChildrenBefore[Len(ChildrenBefore) + last.index + 1]

(***************************************************************************)
(* Claims about documents, checked under SpecDoc.                          *)
(***************************************************************************)
Items(attrib) == {attrib[i] : i \in 1..Len(attrib)}

RECURSIVE ElementsOf(_, _)
ElementsOf(h, s) ==
  IF s = <<>> THEN <<>>
  ELSE (IF IsComment(h, Head(s)) THEN <<>> ELSE <<Head(s)>>)
         \o ElementsOf(h, Tail(s))

\* The characters of s from the first to the last that is not whitespace.
Ink(s) == {i \in 1..Len(s) : s[i] \notin Whitespace}
Trimmed(s) ==
  IF Ink(s) = {} THEN <<>>
  ELSE SubSeq(s, CHOOSE i \in Ink(s) : \A j \in Ink(s) : i <= j,
                 CHOOSE i \in Ink(s) : \A j \in Ink(s) : j <= i)

\* Text with no whitespace at its edges; nothing left is no text.
Stripped(text) ==
  IF text.some /\ Trimmed(text.s) # <<>> THEN Str(Trimmed(text.s)) ELSE None

\* Element m of d is element n of h: tag, attributes as a set, text (as set,
\* or stripped), and the element children in order, each in turn.
RECURSIVE SameTree(_, _, _, _, _)
SameTree(h, n, d, m, stripped) ==
  LET kids == ElementsOf(h, h[n].children)
  IN /\ d[m].tag = h[n].tag
     /\ Items(d[m].attrib) = Items(h[n].attrib)
     /\ d[m].text = (IF stripped THEN Stripped(h[n].text) ELSE h[n].text)
     /\ Len(d[m].children) = Len(kids)
     /\ \A i \in 1..Len(kids) :
          SameTree(h, kids[i], d, d[m].children[i], stripped)

NoComments(d) == \A m \in Ids(d) : ~IsComment(d, m)

\* C1 as stated: the tree read back has the tags, attributes, text and element
\* nesting of the tree written, and no comment.
C1_RoundTripKeepsText ==
  last.op = "roundtrip" =>
    /\ SameTree(last.before, last.node, last.doc, last.value, FALSE)
    /\ NoComments(last.doc)

\* C1: the tree read back has the tags, the attributes (as a set) and the
\* nesting and order of the elements of the tree written that are not below a
\* comment; the text of each is the text written with whitespace stripped
\* from both edges, or no text when nothing is left; there is no comment in it
\* and nothing else.
C1_RoundTripKeepsStrippedText ==
  last.op = "roundtrip" =>
    /\ SameTree(last.before, last.node, last.doc, last.value, TRUE)
    /\ NoComments(last.doc)
    /\ last.value = 1
    /\ Ids(last.doc) = Reach(last.doc, {1}, Len(last.doc))
    /\ \A m \in Ids(last.doc) : last.doc[m].tail = None

C1_Witness ==
  /\ last.op = "roundtrip"
  /\ last.before[1].attrib # <<>>
  /\ \E n \in Ids(last.before) :
       /\ IsComment(last.before, n)
       /\ n \in Kids(last.before, 1)
  /\ \E n \in Ids(last.before) :
       /\ n # 1
       /\ n \in Kids(last.before, 1)
       /\ last.before[n].text.some
       /\ Trimmed(last.before[n].text.s) # last.before[n].text.s
       /\ Trimmed(last.before[n].text.s) # <<>>
  /\ Len(last.doc) = 2

\* C5 as stated: an attribute assignment or a sub-element creation on a
\* comment fails, and a comment never has attributes or children.
C5_CommentRejectsAttributesAndChildren ==
  /\ (last.op = "attrib" /\ IsComment(last.before, last.node))
       => last.status = "InvalidTargetError"
  /\ (last.op = "SubElement" /\ IsComment(last.before, last.node))
       => last.status = "InvalidParentError"
  /\ \A n \in Ids(heap) :
       IsComment(heap, n) => heap[n].attrib = <<>> /\ heap[n].children = <<>>

\* C5: an attribute assignment on a comment succeeds and the comment then
\* holds the key with the value; a sub-element creation on a comment succeeds
\* and the new element is the comment's last child; nothing else changes.
C5_CommentTakesAttributesAndChildren ==
  /\ (last.op = "attrib" /\ IsComment(last.before, last.node)) =>
       /\ last.status = "ok"
       /\ <<"taxonomy", <<"s">>>> \in Items(heap[last.node].attrib)
       /\ \A n \in Ids(heap) : n # last.node => heap[n] = last.before[n]
  /\ (last.op = "SubElement" /\ IsComment(last.before, last.node)) =>
       /\ last.status = "ok"
       /\ last.value = Len(last.before) + 1
       /\ heap[last.node].children =
            Append(last.before[last.node].children, last.value)
       /\ \A n \in Ids(last.before) :
            n # last.node => heap[n] = last.before[n]

C5_Witness ==
  /\ last.op = "attrib"
  /\ IsComment(last.before, last.node)
  /\ last.before[last.node].children # <<>>
  /\ HasKey(heap[last.node].attrib, "taxonomy")

(***************************************************************************)
(* Claims about the notebook's scenario, under SpecNotebook.               *)
(***************************************************************************)
\* C8: with the third and then the second of the three children removed only
\* the first is left; with health inserted at 0 and robotics added as a
\* sub-element the children are health, the first, robotics; every other
\* element of the parsed tree is as it was, and so are the tag and text of
\* the edited one.
C8_HealthFirstRobotics ==
  LET old == nb.parsed
      u == nb.usage_information_element
      was == old[u].children
      health == Len(old) + 1
      robotics == Len(old) + 2
  IN /\ pc = "health" => heap[u].children = <<was[1]>>
     /\ pc \in {"taxonomy", "done"} =>
          /\ Len(was) = UsagePurposeCount
          /\ heap[u].children = <<health, was[1], robotics>>
          /\ heap[health].text = Str(<<"health">>)
          /\ heap[robotics].text = Str(<<"robotics">>)
          /\ \A n \in Ids(old) : n # u => heap[n] = old[n]
          /\ heap[u].tag = old[u].tag /\ heap[u].text = old[u].text
     /\ pc = "taxonomy" => heap[u].attrib = old[u].attrib

C8_Witness ==
  LET u == nb.usage_information_element
  IN /\ pc = "done"
     /\ Len(heap[u].children) = 3
     /\ heap[heap[u].children[1]].text = Str(<<"health">>)
     /\ heap[heap[u].children[2]].text = Str(<<"manufacturing">>)
     /\ heap[heap[u].children[3]].text = Str(<<"robotics">>)
     /\ nb.parsed[nb.parsed[u].children[2]].text
          = Str(<<"high", " ", "precision", " ", "operations">>)
     /\ nb.parsed[nb.parsed[u].children[3]].text
          = Str(<<"micro", " ", "mechanics">>)

(***************************************************************************)
(* Claims about queries, under SpecQuery.                                  *)
(***************************************************************************)
\* What walk(root) visits: root first, then every descendant, depth first.
WalkOfRoot == iter(last.before, 1, AnyTag)

ParentOf(h, n) ==
  IF \E p \in Ids(h) : n \in Kids(h, p)
  THEN CHOOSE p \in Ids(h) : n \in Kids(h, p)
  ELSE 0

RECURSIVE ChildrenOfTagged(_, _, _)
\* The nodes of s whose parent is not the root and has the tag, in order.
ChildrenOfTagged(h, s, tag) ==
  IF s = <<>> THEN <<>>
  ELSE (IF ParentOf(h, Head(s)) > 1 /\ h[ParentOf(h, Head(s))].tag = tag
        THEN <<Head(s)>> ELSE <<>>)
         \o ChildrenOfTagged(h, Tail(s), tag)

\* C9: findAll(root, ".//usage-information/*") returns exactly the immediate
\* children of every usage-information element below root, in document
\* order (the order walk(root) visits them) and no other node; an empty
\* sequence, not an error, when there is none.
C9_ChildrenInDocumentOrder ==
  (last.op = "findall"
     /\ last.path = DescendantChildrenPath("usage-information"))
    => /\ last.status = "ok"
       /\ last.result =
            ChildrenOfTagged(last.before, Tail(WalkOfRoot),
                             "usage-information")

====
